---- MODULE Spec2Model ----
(***************************************************************************)
(* Model of pandas_questions.py: the referendum pipeline                   *)
(*   load_data -> merge_regions_and_departments ->                         *)
(*   merge_referendum_and_areas -> compute_referendum_result_by_regions -> *)
(*   plot_referendum_map.                                                  *)
(*                                                                         *)
(* A DataFrame is a record [index, columns, rows]: `columns` is the        *)
(* sequence of column labels, `rows` the sequence of rows, each row a      *)
(* function from column label to cell value, and `index` the sequence of   *)
(* column labels that form the index (<< >> is the default RangeIndex).    *)
(* Department codes are strings the code inspects and converts, so they    *)
(* are sequences of one-character strings; region codes and names are only *)
(* compared, so they are plain strings.                                    *)
(***************************************************************************)
EXTENDS Integers, Sequences, FiniteSets, TLC

VARIABLES
    pc,                       \* position in __main__, or the function under call
    referendum,               \* referendum table (load_data)
    df_reg,                   \* regions table (load_data)
    df_dep,                   \* departments table (load_data)
    regions_and_departments,  \* result of merge_regions_and_departments
    local_regions_and_departments,
                              \* merge_referendum_and_areas' own
                              \* regions_and_departments, rebound at line 77
    referendum_and_areas,     \* result of merge_referendum_and_areas
    referendum_results,       \* result of compute_referendum_result_by_regions
    reg_json,                 \* geometries read by plot_referendum_map
    to_plot                   \* result of plot_referendum_map

vars == <<pc, referendum, df_reg, df_dep, regions_and_departments,
          local_regions_and_departments, referendum_and_areas,
          referendum_results, reg_json, to_plot>>

---------------------------------------------------------------------------
(* Bounds of the explored inputs.                                          *)

MaxRegions == 2       \* rows of a regions table
MaxDepartments == 2   \* rows of a departments table
MaxAreaRows == 2      \* rows of an area table handed to merge_referendum_and_areas
MaxReferendum == 2    \* rows of a referendum table
MaxMerged == 3        \* rows of a merged table handed to the aggregation
MaxResults == 2       \* rows of an aggregated table handed to the plot
MaxGeo == 2           \* rows of the geometry file
MainRows == 1         \* rows of each file read by __main__

---------------------------------------------------------------------------
(* Cell values.                                                            *)

NaN == "NaN"      \* missing value of a string column
NoCode == << >>   \* missing value of a department code column

Digits == {"0", "1", "2", "3", "4", "5", "6", "7", "8", "9"}

Range(s) == {s[i] : i \in DOMAIN s}

\* str.isnumeric(): non-empty and every character numeric.
IsNumeric(code) == Len(code) > 0 /\ \A i \in DOMAIN code : code[i] \in Digits

DigitValue(c) ==
    CASE c = "0" -> 0 [] c = "1" -> 1 [] c = "2" -> 2 [] c = "3" -> 3
      [] c = "4" -> 4 [] c = "5" -> 5 [] c = "6" -> 6 [] c = "7" -> 7
      [] c = "8" -> 8 [] c = "9" -> 9

DigitChar(d) ==
    CASE d = 0 -> "0" [] d = 1 -> "1" [] d = 2 -> "2" [] d = 3 -> "3"
      [] d = 4 -> "4" [] d = 5 -> "5" [] d = 6 -> "6" [] d = 7 -> "7"
      [] d = 8 -> "8" [] d = 9 -> "9"

\* astype('int') succeeds on a cell: int(str) of a digit string.  A missing
\* value or any other character of the model's codes raises ValueError.
IntParses(code) == Len(code) > 0 /\ \A i \in DOMAIN code : code[i] \in Digits

\* astype('int') of a cell that parses: its value.
RECURSIVE AsInt(_)
AsInt(code) ==
    IF Len(code) = 0 THEN 0
    ELSE 10 * AsInt(SubSeq(code, 1, Len(code) - 1)) + DigitValue(code[Len(code)])

\* The number written on two digits, as zfill(2) would: 1 gives "01".
AsStrTwoDigits(n) == <<DigitChar((n \div 10) % 10), DigitChar(n % 10)>>

\* astype('str') of an integer cell: its decimal digits.
RECURSIVE AsStr(_)
AsStr(n) ==
    IF n < 10 THEN <<DigitChar(n)>>
    ELSE AsStr(n \div 10) \o <<DigitChar(n % 10)>>

Corsica == {<<"2", "A">>, <<"2", "B">>}

\* The cut of line 72 taken one too far: 100 passes.
IsMainlandUpTo100(n) == n <= 100

\* The DOM-TOM cut of line 72.
IsMainland(n) == n < 100

---------------------------------------------------------------------------
(* DataFrame operations.                                                   *)

Table(cols, rows) == [index |-> << >>, columns |-> cols, rows |-> rows]

NoTable == Table(<< >>, << >>)

\* Missing value of a column, by the column's type.
NullOf(col) == IF col = "code_dep" THEN NoCode ELSE NaN

Restrict(row, cols) == [c \in cols |-> row[c]]

\* df.columns = new : relabel the columns by position.
Relabel(t, new) ==
    [t EXCEPT !.columns = new,
              !.rows = [i \in DOMAIN t.rows |->
                          [c \in Range(new) |->
                              t.rows[i][t.columns[CHOOSE j \in DOMAIN new : new[j] = c]]]]]

\* df[[...]] : column selection.
Project(t, cols) ==
    [t EXCEPT !.columns = cols,
              !.rows = [i \in DOMAIN t.rows |-> Restrict(t.rows[i], Range(cols))]]

\* df[col] : the cells of a column, one per row.
Column(t, col) == [i \in DOMAIN t.rows |-> t.rows[i][col]]

\* df[col] = values : assignment of a column, appended when new.
SetColumn(t, col, values) ==
    [t EXCEPT !.columns = IF col \in Range(t.columns) THEN t.columns
                          ELSE Append(t.columns, col),
              !.rows = [i \in DOMAIN t.rows |->
                          [c \in Range(t.columns) \cup {col} |->
                              IF c = col THEN values[i] ELSE t.rows[i][c]]]]

RECURSIVE MaskRows(_, _)
MaskRows(rows, mask) ==
    IF rows = << >> THEN << >>
    ELSE (IF Head(mask) THEN <<Head(rows)>> ELSE << >>)
         \o MaskRows(Tail(rows), Tail(mask))

\* df[mask] : row selection by a boolean column.
Filter(t, mask) == [t EXCEPT !.rows = MaskRows(t.rows, mask)]

\* The non-key columns of the right table, in order.
OtherColumns(cols, key) == SelectSeq(cols, LAMBDA c : c # key)

Matches(l, right, key) == SelectSeq(right.rows, LAMBDA r : r[key] = l[key])

\* The rows a left row yields in a left join.
LeftJoinRow(l, right, key) ==
    LET m == Matches(l, right, key)
        others == Range(OtherColumns(right.columns, key))
    IN  IF m = << >>
        THEN << l @@ [c \in others |-> NullOf(c)] >>
        ELSE [i \in DOMAIN m |-> l @@ Restrict(m[i], others)]

\* The rows a left row yields in an inner join.
InnerJoinRow(l, right, key) ==
    LET m == Matches(l, right, key)
        others == Range(OtherColumns(right.columns, key))
    IN  [i \in DOMAIN m |-> l @@ Restrict(m[i], others)]

RECURSIVE JoinFrom(_, _, _, _, _)
JoinFrom(left, right, key, how, i) ==
    IF i > Len(left.rows) THEN << >>
    ELSE (IF how = "left" THEN LeftJoinRow(left.rows[i], right, key)
                          ELSE InnerJoinRow(left.rows[i], right, key))
         \o JoinFrom(left, right, key, how, i + 1)

\* pd.merge(left, right, on=key, how=how).
Merge(left, right, key, how) ==
    Table(left.columns \o OtherColumns(right.columns, key),
          JoinFrom(left, right, key, how, 1))

\* pd.concat([a, b], axis=0).
Concat(a, b) == Table(a.columns, a.rows \o b.rows)

---------------------------------------------------------------------------
(* merge_regions_and_departments                                           *)

RegionColumns == <<"id", "code_reg", "name_reg", "slug">>
DepartmentColumns == <<"id", "code_reg", "code_dep", "name_dep", "slug">>

\* The join of lines 41-45 on the relabelled tables.
merged_reg_dep(regions, departments) ==
    Merge(Project(regions, <<"code_reg", "name_reg">>),
          Project(departments, <<"code_reg", "code_dep", "name_dep">>),
          "code_reg", "left")

MergeRegionsAndDepartments ==
    /\ pc = "merge_regions_and_departments"
    /\ df_reg' = Relabel(df_reg, RegionColumns)
    /\ df_dep' = Relabel(df_dep, DepartmentColumns)
    /\ regions_and_departments' = merged_reg_dep(df_reg', df_dep')
    /\ pc' = "merge_referendum_and_areas"
    /\ UNCHANGED <<referendum, local_regions_and_departments,
                   referendum_and_areas, referendum_results, reg_json, to_plot>>

---------------------------------------------------------------------------
(* merge_referendum_and_areas                                              *)

\* Lines 59-60 without the Corsica clause.
KeepCodeNumericOnly(code) == IsNumeric(code)

\* Lines 59-60: the mask of the rows kept.
KeepCode(code) == IsNumeric(code) \/ code \in Corsica

FilteredReferendum(ref) ==
    Filter(ref, [i \in DOMAIN ref.rows |-> KeepCode(ref.rows[i]["code_dep"])])

\* Line 58 with the filter of lines 59-60 applied to the caller's table too.
WithCodeDepFiltered(ref) ==
    FilteredReferendum(SetColumn(ref, "code_dep", Column(ref, "Department code")))

\* Line 58: the caller's table gets the column.
WithCodeDep(ref) == SetColumn(ref, "code_dep", Column(ref, "Department code"))

\* Lines 63-68.
corsica(areas) ==
    Filter(areas, [i \in DOMAIN areas.rows |-> areas.rows[i]["code_dep"] \in Corsica])

not_corsica(areas) ==
    Filter(areas, [i \in DOMAIN areas.rows |-> areas.rows[i]["code_dep"] \notin Corsica])

\* Line 72: astype('int') raises ValueError on a cell that is no integer.
AstypeRaises(areas) ==
    \E i \in DOMAIN not_corsica(areas).rows :
        ~IntParses(not_corsica(areas).rows[i]["code_dep"])

\* Lines 73-74 without the conversions: the code is kept as written.
ReformatKeepsZeros(code) == code

\* Lines 73-74: to int and back to str.
Reformat(code) == AsStr(AsInt(code))

\* Lines 72-77: the area table the referendum is joined with.
Reformatted(areas) ==
    LET nc == not_corsica(areas)
        mainland == Filter(nc, [i \in DOMAIN nc.rows |->
                                  IsMainland(AsInt(nc.rows[i]["code_dep"]))])
    IN  Concat(SetColumn(mainland, "code_dep",
                         [i \in DOMAIN mainland.rows |->
                            Reformat(mainland.rows[i]["code_dep"])]),
               corsica(areas))

\* Lines 80-81, on the filtered referendum and the reformatted areas.
merged_ref_reg_dep(ref, areas) == Merge(ref, areas, "code_dep", "left")

MergeReferendumAndAreas ==
    /\ pc = "merge_referendum_and_areas"
    /\ referendum' = WithCodeDep(referendum)
    /\ IF AstypeRaises(regions_and_departments)
       THEN /\ pc' = "error"
            /\ UNCHANGED <<local_regions_and_departments, referendum_and_areas>>
       ELSE /\ local_regions_and_departments' =
                   Reformatted(regions_and_departments)
            /\ referendum_and_areas' =
                   merged_ref_reg_dep(FilteredReferendum(referendum'),
                                      local_regions_and_departments')
            /\ pc' = "compute_referendum_result_by_regions"
    /\ UNCHANGED <<df_reg, df_dep, regions_and_departments, referendum_results,
                   reg_json, to_plot>>

---------------------------------------------------------------------------
(* compute_referendum_result_by_regions                                    *)

NumericColumns == <<"Registered", "Abstentions", "Null", "Choice A", "Choice B">>

ResultColumns == <<"name_reg", "Registered", "Abstentions", "Null",
                   "Choice A", "Choice B">>

\* The strings of the model in str order, by which groupby sorts its keys.
StringOrder == <<"84", "94", "Auvergne-Rhône-Alpes", "Bretagne", "Corse">>

Rank(s) == CHOOSE i \in DOMAIN StringOrder : StringOrder[i] = s

KeyLeq(a, b) ==
    \/ Rank(a[1]) < Rank(b[1])
    \/ a[1] = b[1] /\ Rank(a[2]) <= Rank(b[2])

\* groupby(["code_reg", "name_reg"]) with dropna: the keys of the groups.
GroupKeys(t) ==
    {<<t.rows[i]["code_reg"], t.rows[i]["name_reg"]>> :
        i \in {j \in DOMAIN t.rows : /\ t.rows[j]["code_reg"] # NaN
                                      /\ t.rows[j]["name_reg"] # NaN}}

RECURSIVE SortKeys(_)
SortKeys(keys) ==
    IF keys = {} THEN << >>
    ELSE LET first == CHOOSE k \in keys : \A o \in keys : KeyLeq(k, o)
         IN  <<first>> \o SortKeys(keys \ {first})

GroupRows(t, key) ==
    SelectSeq(t.rows, LAMBDA r : r["code_reg"] = key[1] /\ r["name_reg"] = key[2])

\* The first cell of the column in place of the sum.
FirstCell(rows, col) == IF rows = << >> THEN 0 ELSE Head(rows)[col]

\* np.sum over the cells of a column.
RECURSIVE Sum(_, _)
Sum(rows, col) ==
    IF rows = << >> THEN 0 ELSE Head(rows)[col] + Sum(Tail(rows), col)

\* groupby(...).aggregate(np.sum): indexed by the keys, one row per group.
\* What it makes of the non-numeric columns differs between pandas
\* versions; line 99 discards them, so they are left out here.
GroupSum(t) ==
    LET keys == SortKeys(GroupKeys(t))
        cols == SelectSeq(t.columns, LAMBDA c : c \in Range(NumericColumns))
    IN  [index |-> <<"code_reg", "name_reg">>,
         columns |-> cols,
         rows |-> [i \in DOMAIN keys |->
                     [c \in {"code_reg", "name_reg"} |->
                         IF c = "code_reg" THEN keys[i][1] ELSE keys[i][2]]
                     @@ [c \in Range(cols) |-> Sum(GroupRows(t, keys[i]), c)]]]

\* reset_index(): the index levels become the first columns.
ResetIndex(t) ==
    [index |-> << >>, columns |-> t.index \o t.columns, rows |-> t.rows]

abs_count(t) == ResetIndex(GroupSum(t))

ComputeReferendumResultByRegions ==
    /\ pc = "compute_referendum_result_by_regions"
    /\ referendum_results' = Project(abs_count(referendum_and_areas), ResultColumns)
    /\ pc' = "plot_referendum_map"
    /\ UNCHANGED <<referendum, df_reg, df_dep, regions_and_departments,
                   local_regions_and_departments, referendum_and_areas,
                   reg_json, to_plot>>

---------------------------------------------------------------------------
(* plot_referendum_map                                                     *)

RECURSIVE GCD(_, _)
GCD(a, b) == IF b = 0 THEN a ELSE GCD(b, a % b)

\* 0 / 0 on a numeric column gives nan, without raising.
NaNRatio == <<0, 0>>

\* Choice A over Choice B in place of Choice A over the expressed ballots.
RatioToChoiceB(a, b) ==
    IF b = 0 THEN NaNRatio ELSE <<a \div GCD(a, b), b \div GCD(a, b)>>

\* Lines 117-119 on one row: the quotient, as a fraction in lowest terms.
\* Vote counts are never negative, so a zero denominator is 0 / 0.
Ratio(a, b) ==
    IF a + b = 0 THEN NaNRatio
    ELSE <<a \div GCD(a, a + b), (a + b) \div GCD(a, a + b)>>

\* Lines 113-115.
WithNom(t) == SetColumn(t, "nom", Column(t, "name_reg"))

\* Lines 116-120.
WithRatio(t) ==
    SetColumn(t, "ratio",
              [i \in DOMAIN t.rows |->
                  Ratio(t.rows[i]["Choice A"], t.rows[i]["Choice B"])])

\* Lines 121-122 with how='left'.
geo_merged_left(results, geo) == Merge(results, geo, "nom", "left")

\* Lines 121-122: pd.merge defaults to an inner join.
geo_merged(results, geo) == Merge(results, geo, "nom", "inner")

---------------------------------------------------------------------------
(* The files read: load_data and gpd.read_file.                            *)

SeqsUpTo(S, n) == UNION {[1..k -> S] : k \in 0..n}

\* Column labels of the files, before merge_regions_and_departments
\* relabels them.
RegionFileColumns == <<"id", "code", "name", "slug">>
DepartmentFileColumns == <<"id", "region_code", "code", "name", "slug">>
ReferendumColumns == <<"Department code", "Registered", "Abstentions", "Null",
                       "Choice A", "Choice B">>
AreaColumns == <<"code_reg", "name_reg", "code_dep", "name_dep">>
GeoColumns == <<"nom", "geometry">>

\* Regions: two codes with their names, and one of the codes listed under
\* a second name.
RegCodes == {"84", "94"}
NamedRegions == {<<"84", "Auvergne-Rhône-Alpes">>, <<"94", "Corse">>}
RegionPairs == NamedRegions \cup {<<"84", "Corse">>}

\* Department codes: with and without leading zero, two digits, Corsica,
\* the first overseas number, and a code that is no number.
DepCodes == {<<"0", "1">>, <<"1">>, <<"1", "0">>, <<"2", "A">>,
             <<"1", "0", "0">>, <<"Z", "A">>}

DepNameOf(code) ==
    IF code \in {<<"0", "1">>, <<"1">>} THEN "Ain"
    ELSE IF code = <<"1", "0">> THEN "Aube"
    ELSE IF code \in Corsica THEN "Corse-du-Sud"
    ELSE "Outre-mer"

Votes(registered, abstentions, null, a, b) ==
    [c \in Range(NumericColumns) |->
        CASE c = "Registered" -> registered
          [] c = "Abstentions" -> abstentions
          [] c = "Null" -> null
          [] c = "Choice A" -> a
          [] c = "Choice B" -> b]

\* Vote counts of a row: the counts of the scenario, and a row without
\* expressed ballots.
ScenarioVotes == Votes(100, 10, 2, 50, 38)
Profiles == {ScenarioVotes, Votes(5, 4, 1, 0, 0)}

\* Names in the geometry file: one of a region of the tables, one of none.
GeoNames == {"Auvergne-Rhône-Alpes", "Bretagne"}

RegionRow(pair) == [id |-> 0, code |-> pair[1], name |-> pair[2], slug |-> "slug"]

DepartmentRow(reg, code) ==
    [id |-> 0, region_code |-> reg, code |-> code, name |-> DepNameOf(code),
     slug |-> "slug"]

ReferendumRow(code, votes) == [c \in {"Department code"} |-> code] @@ votes

GeoRow(nom) == [nom |-> nom, geometry |-> "polygon"]

RegionFiles(n) ==
    {Table(RegionFileColumns, rows) :
        rows \in SeqsUpTo({RegionRow(p) : p \in RegionPairs}, n)}

DepartmentFiles(n) ==
    {Table(DepartmentFileColumns, rows) :
        rows \in SeqsUpTo({DepartmentRow(r, c) : r \in RegCodes, c \in DepCodes}, n)}

ReferendumFiles(profiles, n) ==
    {Table(ReferendumColumns, rows) :
        rows \in SeqsUpTo({ReferendumRow(c, v) : c \in DepCodes, v \in profiles}, n)}

GeoFiles(n) ==
    {Table(GeoColumns, rows) : rows \in SeqsUpTo({GeoRow(m) : m \in GeoNames}, n)}

PlotReferendumMap ==
    /\ pc = "plot_referendum_map"
    /\ reg_json' \in GeoFiles(MaxGeo)
    /\ referendum_results' = WithRatio(WithNom(referendum_results))
    /\ to_plot' = geo_merged(referendum_results', reg_json')
    /\ pc' = "done"
    /\ UNCHANGED <<referendum, df_reg, df_dep, regions_and_departments,
                   local_regions_and_departments, referendum_and_areas>>

---------------------------------------------------------------------------
(* __main__: the four stages on the files read by load_data.               *)

Init ==
    /\ pc = "merge_regions_and_departments"
    /\ referendum \in ReferendumFiles(Profiles, MainRows)
    /\ df_reg \in RegionFiles(MainRows)
    /\ df_dep \in DepartmentFiles(MainRows)
    /\ regions_and_departments = NoTable
    /\ local_regions_and_departments = NoTable
    /\ referendum_and_areas = NoTable
    /\ referendum_results = NoTable
    /\ reg_json = NoTable
    /\ to_plot = NoTable

Next ==
    \/ MergeRegionsAndDepartments
    \/ MergeReferendumAndAreas
    \/ ComputeReferendumResultByRegions
    \/ PlotReferendumMap

Spec == Init /\ [][Next]_vars

---------------------------------------------------------------------------
(* Each function on every table of its argument types.                     *)

\* An area table as merge_regions_and_departments builds them: a region
\* with a department, or a region without one.
AreaRows ==
    {[code_reg |-> p[1], name_reg |-> p[2],
      code_dep |-> c, name_dep |-> IF c = NoCode THEN NaN ELSE DepNameOf(c)] :
        p \in NamedRegions, c \in DepCodes \cup {NoCode}}

AreaTables(n) == {Table(AreaColumns, rows) : rows \in SeqsUpTo(AreaRows, n)}

MergedColumns ==
    ReferendumColumns \o <<"code_dep", "code_reg", "name_reg", "name_dep">>

\* A row of a merged table: a kept referendum row with the region and
\* department it matched, or with none.
MergedRows ==
    {(ReferendumRow(c, v) @@ [k \in {"code_dep"} |-> c])
        @@ [code_reg |-> p[1], name_reg |-> p[2],
            name_dep |-> IF p[1] = NaN THEN NaN ELSE DepNameOf(c)] :
        c \in {<<"1">>, <<"2", "A">>}, v \in Profiles,
        p \in RegionPairs \cup {<<NaN, NaN>>}}

MergedTables(n) == {Table(MergedColumns, rows) : rows \in SeqsUpTo(MergedRows, n)}

ResultRows ==
    {[c \in {"name_reg"} |-> m] @@ v : m \in {"Auvergne-Rhône-Alpes", "Corse"},
                                        v \in Profiles}

ResultTables(n) == {Table(ResultColumns, rows) : rows \in SeqsUpTo(ResultRows, n)}

InitAreas ==
    /\ pc = "merge_regions_and_departments"
    /\ df_reg \in RegionFiles(MaxRegions)
    /\ df_dep \in DepartmentFiles(MaxDepartments)
    /\ referendum = NoTable
    /\ regions_and_departments = NoTable
    /\ local_regions_and_departments = NoTable
    /\ referendum_and_areas = NoTable
    /\ referendum_results = NoTable
    /\ reg_json = NoTable
    /\ to_plot = NoTable

SpecAreas == InitAreas /\ [][MergeRegionsAndDepartments]_vars

InitMerge ==
    /\ pc = "merge_referendum_and_areas"
    /\ referendum \in ReferendumFiles({ScenarioVotes}, MaxReferendum)
    /\ regions_and_departments \in AreaTables(MaxAreaRows)
    /\ local_regions_and_departments = NoTable
    /\ df_reg = NoTable
    /\ df_dep = NoTable
    /\ referendum_and_areas = NoTable
    /\ referendum_results = NoTable
    /\ reg_json = NoTable
    /\ to_plot = NoTable

SpecMerge == InitMerge /\ [][MergeReferendumAndAreas]_vars

InitAggregate ==
    /\ pc = "compute_referendum_result_by_regions"
    /\ referendum_and_areas \in MergedTables(MaxMerged)
    /\ referendum = NoTable
    /\ df_reg = NoTable
    /\ df_dep = NoTable
    /\ regions_and_departments = NoTable
    /\ local_regions_and_departments = NoTable
    /\ referendum_results = NoTable
    /\ reg_json = NoTable
    /\ to_plot = NoTable

SpecAggregate == InitAggregate /\ [][ComputeReferendumResultByRegions]_vars

InitPlot ==
    /\ pc = "plot_referendum_map"
    /\ referendum_results \in ResultTables(MaxResults)
    /\ referendum = NoTable
    /\ df_reg = NoTable
    /\ df_dep = NoTable
    /\ regions_and_departments = NoTable
    /\ local_regions_and_departments = NoTable
    /\ referendum_and_areas = NoTable
    /\ reg_json = NoTable
    /\ to_plot = NoTable

SpecPlot == InitPlot /\ [][PlotReferendumMap]_vars

---------------------------------------------------------------------------
(* Claims about merge_regions_and_departments (SpecAreas).                 *)

AreasMerged == pc = "merge_referendum_and_areas"

\* The cells of the j-th column of a table, whatever its label.
CellsAt(t, j) == [i \in DOMAIN t.rows |-> t.rows[i][t.columns[j]]]

UniqueRegionCodes ==
    \A i, j \in DOMAIN df_reg.rows :
        CellsAt(df_reg, 2)[i] = CellsAt(df_reg, 2)[j] => i = j

\* C2: when the region codes are unique, the table returned by
\* merge_regions_and_departments has as many rows as the departments table.
C2_OneRowPerDepartment ==
    AreasMerged /\ UniqueRegionCodes =>
        Len(regions_and_departments.rows) = Len(df_dep.rows)

---------------------------------------------------------------------------
(* Claims about merge_referendum_and_areas (SpecMerge).                    *)

ReferendumMerged == pc = "compute_referendum_result_by_regions"

IsOverseas(code) == IsNumeric(code) /\ AsInt(code) >= 100

\* C3, as claimed: no row of the table returned by
\* merge_referendum_and_areas has a numeric department code of 100 or more.
C3_NoOverseasRow ==
    ReferendumMerged =>
        \A i \in DOMAIN referendum_and_areas.rows :
            ~IsOverseas(referendum_and_areas.rows[i]["code_dep"])

\* C3, amended: a row of the returned table with a numeric department code
\* of 100 or more carries no region and no department: its region code,
\* region name and department name are null, also when the area table lists
\* that code.
C3_OverseasRowsCarryNoArea ==
    ReferendumMerged =>
        \A i \in DOMAIN referendum_and_areas.rows :
            IsOverseas(referendum_and_areas.rows[i]["code_dep"]) =>
                /\ referendum_and_areas.rows[i]["code_reg"] = NaN
                /\ referendum_and_areas.rows[i]["name_reg"] = NaN
                /\ referendum_and_areas.rows[i]["name_dep"] = NaN

\* An overseas code listed by the referendum and by the area table, after
\* the call.
C3_Witness ==
    /\ ReferendumMerged
    /\ \E i \in DOMAIN referendum_and_areas.rows :
          IsOverseas(referendum_and_areas.rows[i]["code_dep"])
    /\ \E i \in DOMAIN regions_and_departments.rows :
          IsOverseas(regions_and_departments.rows[i]["code_dep"])

\* The decimal digits of a code without its leading zeros.
RECURSIVE StripZeros(_)
StripZeros(code) ==
    IF Len(code) > 1 /\ Head(code) = "0" THEN StripZeros(Tail(code)) ELSE code

\* The rows the reformatted area table is expected to hold: the rows below
\* 100 with their codes stripped, then the Corsica rows as they were.
ExpectedAreaRows ==
    LET rows == regions_and_departments.rows
        below == SelectSeq(rows, LAMBDA r : /\ r["code_dep"] \notin Corsica
                                            /\ AsInt(r["code_dep"]) < 100)
    IN  [i \in DOMAIN below |->
            [below[i] EXCEPT !["code_dep"] = StripZeros(below[i]["code_dep"])]]
        \o SelectSeq(rows, LAMBDA r : r["code_dep"] \in Corsica)

\* C6: in the area table the referendum is joined with, every row that is
\* not Corsica and is below 100 has its code without leading zeros, the
\* Corsica rows are as they were, and reformatting a code again changes
\* nothing.
C6_CodesReformatted ==
    ReferendumMerged =>
        /\ local_regions_and_departments.rows = ExpectedAreaRows
        /\ \A i \in DOMAIN local_regions_and_departments.rows :
              LET code == local_regions_and_departments.rows[i]["code_dep"]
              IN  code \notin Corsica => Reformat(code) = code

\* An area table with "01" and a Corsica code, after the call.
C6_Witness ==
    /\ ReferendumMerged
    /\ \E i \in DOMAIN regions_and_departments.rows :
          regions_and_departments.rows[i]["code_dep"] = <<"0", "1">>
    /\ \E i \in DOMAIN regions_and_departments.rows :
          regions_and_departments.rows[i]["code_dep"] \in Corsica
    /\ \E i \in DOMAIN local_regions_and_departments.rows :
          local_regions_and_departments.rows[i]["code_dep"] = <<"1">>

Kept(code) ==
    \/ code \in Corsica
    \/ code # << >> /\ Range(code) \subseteq Digits

HasArea(code) ==
    \E j \in DOMAIN local_regions_and_departments.rows :
        local_regions_and_departments.rows[j]["code_dep"] = code

\* The rows of the returned table that come from the i-th referendum row
\* are those equal to it on the referendum's columns.
RowsOf(i) ==
    {j \in DOMAIN referendum_and_areas.rows :
        Restrict(referendum_and_areas.rows[j], Range(referendum.columns))
            = referendum.rows[i]}

\* C8: every referendum row with a numeric or Corsica code is in the
\* returned table; one whose code is in no row of the reformatted area
\* table is there with null region code, region name and department name;
\* and no row with another code is there.
C8_LeftJoinKeepsRows ==
    ReferendumMerged =>
        /\ \A i \in DOMAIN referendum.rows :
              Kept(referendum.rows[i]["Department code"]) =>
                  /\ RowsOf(i) # {}
                  /\ ~HasArea(referendum.rows[i]["Department code"]) =>
                        \A j \in RowsOf(i) :
                            /\ referendum_and_areas.rows[j]["code_reg"] = NaN
                            /\ referendum_and_areas.rows[j]["name_reg"] = NaN
                            /\ referendum_and_areas.rows[j]["name_dep"] = NaN
        /\ \A j \in DOMAIN referendum_and_areas.rows :
              Kept(referendum_and_areas.rows[j]["Department code"])

\* A kept referendum row without area and a dropped one, after the call.
C8_Witness ==
    /\ ReferendumMerged
    /\ \E i \in DOMAIN referendum.rows :
          /\ Kept(referendum.rows[i]["Department code"])
          /\ ~HasArea(referendum.rows[i]["Department code"])
    /\ \E i \in DOMAIN referendum.rows :
          ~Kept(referendum.rows[i]["Department code"])
    /\ local_regions_and_departments.rows # << >>

---------------------------------------------------------------------------
(* Claims about compute_referendum_result_by_regions (SpecAggregate).      *)

Aggregated == pc = "plot_referendum_map"

Bijections(A, B) ==
    {f \in [A -> B] : /\ \A x, y \in A : f[x] = f[y] => x = y
                      /\ \A b \in B : \E x \in A : f[x] = b}

\* The total of a column over the rows of a table at the indices I.
RECURSIVE TotalOf(_, _, _)
TotalOf(t, I, col) ==
    IF I = {} THEN 0
    ELSE LET i == CHOOSE j \in I : TRUE
         IN  t.rows[i][col] + TotalOf(t, I \ {i}, col)

RegionCodesIn(t) ==
    {t.rows[i]["code_reg"] : i \in DOMAIN t.rows} \ {NaN}

RegionsIn(t) ==
    {<<t.rows[i]["code_reg"], t.rows[i]["name_reg"]>> : i \in DOMAIN t.rows}
        \ {<<NaN, NaN>>}

\* C4, as claimed: the rows of the result correspond one to one to the
\* region codes of the input, each holding the totals of the five counts
\* over the input rows of its code.
C4_OneRowPerRegionCode ==
    Aggregated =>
        \E f \in Bijections(DOMAIN referendum_results.rows,
                            RegionCodesIn(referendum_and_areas)) :
            \A i \in DOMAIN referendum_results.rows :
                \A c \in Range(NumericColumns) :
                    referendum_results.rows[i][c] =
                        TotalOf(referendum_and_areas,
                                {j \in DOMAIN referendum_and_areas.rows :
                                    referendum_and_areas.rows[j]["code_reg"] = f[i]},
                                c)

\* C4, amended: the rows of the result correspond one to one to the pairs
\* (region code, region name) of the input, each holding the name and the
\* totals of the five counts over the input rows of its pair; rows without
\* region count nowhere.
C4_OneRowPerRegion ==
    Aggregated =>
        \E f \in Bijections(DOMAIN referendum_results.rows,
                            RegionsIn(referendum_and_areas)) :
            \A i \in DOMAIN referendum_results.rows :
                /\ referendum_results.rows[i]["name_reg"] = f[i][2]
                /\ \A c \in Range(NumericColumns) :
                      referendum_results.rows[i][c] =
                          TotalOf(referendum_and_areas,
                                  {j \in DOMAIN referendum_and_areas.rows :
                                      /\ referendum_and_areas.rows[j]["code_reg"] = f[i][1]
                                      /\ referendum_and_areas.rows[j]["name_reg"] = f[i][2]},
                                  c)

\* A region with two input rows beside a row without region, aggregated.
C4_Witness ==
    /\ Aggregated
    /\ \E i, j \in DOMAIN referendum_and_areas.rows :
          /\ i # j
          /\ referendum_and_areas.rows[i]["code_reg"] # NaN
          /\ referendum_and_areas.rows[i]["code_reg"] =
                referendum_and_areas.rows[j]["code_reg"]
          /\ referendum_and_areas.rows[i]["name_reg"] =
                referendum_and_areas.rows[j]["name_reg"]
          /\ referendum_and_areas.rows[i]["Registered"] #
                referendum_and_areas.rows[j]["Registered"]
    /\ \E i \in DOMAIN referendum_and_areas.rows :
          referendum_and_areas.rows[i]["code_reg"] = NaN
    /\ Len(referendum_results.rows) = 1

\* C5: the result is indexed by code_reg and its columns are name_reg and
\* the five counts.
C5_IndexedByRegionCode ==
    Aggregated =>
        /\ referendum_results.index = <<"code_reg">>
        /\ referendum_results.columns = ResultColumns

---------------------------------------------------------------------------
(* Claims about plot_referendum_map (SpecPlot).                            *)

Plotted == pc = "done"

Expressed(row) == row["Choice A"] + row["Choice B"]

\* C7: every row of the returned table has ratio = Choice A /
\* (Choice A + Choice B), nan when there is no expressed ballot, and the
\* call raises nothing.
C7_RatioOfChoiceA ==
    /\ pc # "error"
    /\ Plotted =>
          \A i \in DOMAIN to_plot.rows :
              LET row == to_plot.rows[i]
              IN  IF Expressed(row) = 0
                  THEN row["ratio"] = NaNRatio
                  ELSE /\ row["ratio"][2] > 0
                       /\ row["ratio"][1] * Expressed(row)
                            = row["Choice A"] * row["ratio"][2]

\* A returned table with a row without expressed ballots and one with.
C7_Witness ==
    /\ Plotted
    /\ \E i \in DOMAIN to_plot.rows : Expressed(to_plot.rows[i]) = 0
    /\ \E i \in DOMAIN to_plot.rows : Expressed(to_plot.rows[i]) > 0

GeometryNamed(name) ==
    \E g \in DOMAIN reg_json.rows : reg_json.rows[g]["nom"] = name

\* C9: a region of the aggregated table is in the returned table exactly
\* when a geometry bears its name, every returned row joins a region with
\* a geometry of its name, and the call raises nothing.
C9_InnerJoinOnName ==
    /\ pc # "error"
    /\ Plotted =>
          /\ \A i \in DOMAIN referendum_results.rows :
                GeometryNamed(referendum_results.rows[i]["name_reg"])
                    <=> \E j \in DOMAIN to_plot.rows :
                            Restrict(to_plot.rows[j], Range(referendum_results.columns))
                                = referendum_results.rows[i]
          /\ \A j \in DOMAIN to_plot.rows :
                /\ GeometryNamed(to_plot.rows[j]["name_reg"])
                /\ to_plot.rows[j]["nom"] = to_plot.rows[j]["name_reg"]
                /\ to_plot.rows[j]["geometry"] # NaN

\* A region without geometry, a geometry without region and a joined row.
C9_Witness ==
    /\ Plotted
    /\ \E i \in DOMAIN referendum_results.rows :
          ~GeometryNamed(referendum_results.rows[i]["name_reg"])
    /\ \E g \in DOMAIN reg_json.rows :
          \A i \in DOMAIN referendum_results.rows :
              referendum_results.rows[i]["name_reg"] # reg_json.rows[g]["nom"]
    /\ to_plot.rows # << >>

---------------------------------------------------------------------------
(* Claims about __main__ (Spec).                                           *)

\* The files of the scenario: one referendum row of department `code`, the
\* region 84, and one department of region 84 whose code reads 1.
Scenario(code) ==
    /\ Len(referendum.rows) = 1
    /\ referendum.rows[1]["Department code"] = code
    /\ Restrict(referendum.rows[1], Range(NumericColumns)) = ScenarioVotes
    /\ Len(df_reg.rows) = 1
    /\ CellsAt(df_reg, 2)[1] = "84"
    /\ CellsAt(df_reg, 3)[1] = "Auvergne-Rhône-Alpes"
    /\ Len(df_dep.rows) = 1
    /\ CellsAt(df_dep, 2)[1] = "84"
    /\ StripZeros(CellsAt(df_dep, 3)[1]) = <<"1">>

\* The aggregated row of the scenario, with ratio = 50 / 88.
IsScenarioResult(row) ==
    /\ row["name_reg"] = "Auvergne-Rhône-Alpes"
    /\ Restrict(row, Range(NumericColumns)) = ScenarioVotes
    /\ row["ratio"][2] > 0
    /\ row["ratio"][1] * 88 = 50 * row["ratio"][2]

\* C1, as claimed: with the referendum row of department "01", the run
\* ends with the aggregated row of region 84 and ratio 50/88.
C1_Department01 ==
    pc = "done" /\ Scenario(<<"0", "1">>) =>
        \E i \in DOMAIN referendum_results.rows :
            IsScenarioResult(referendum_results.rows[i])

\* C1, amended: with the referendum row of department "1", the run ends
\* with one aggregated row, that of region 84, and ratio 50/88.
C1_Department1 ==
    Scenario(<<"1">>) =>
        /\ pc # "error"
        /\ pc = "done" =>
              /\ Len(referendum_results.rows) = 1
              /\ IsScenarioResult(referendum_results.rows[1])

\* The end of the run on the scenario with department "1", the departments
\* file writing it "01".
C1_Witness ==
    /\ pc = "done"
    /\ Scenario(<<"1">>)
    /\ regions_and_departments.rows[1]["code_dep"] = <<"0", "1">>
    /\ referendum_results.rows # << >>

\* The table `new` is `old` with its columns relabelled at most.
SameCellsByPosition(old, new) ==
    /\ new.index = old.index
    /\ Len(new.columns) = Len(old.columns)
    /\ Len(new.rows) = Len(old.rows)
    /\ \A i \in DOMAIN old.rows : \A j \in DOMAIN old.columns :
          new.rows[i][new.columns[j]] = old.rows[i][old.columns[j]]

\* The table `new` is `old` with the columns `added` appended at most.
Extended(old, new, added) ==
    /\ new.index = old.index
    /\ new.columns = old.columns \o added
    /\ Len(new.rows) = Len(old.rows)
    /\ \A i \in DOMAIN old.rows :
          Restrict(new.rows[i], Range(old.columns)) = old.rows[i]

\* C10, as claimed: no stage changes a table passed to it.
C10_ArgumentsUnchanged ==
    [][/\ pc = "merge_regions_and_departments" =>
            df_reg' = df_reg /\ df_dep' = df_dep
       /\ pc = "merge_referendum_and_areas" =>
            /\ referendum' = referendum
            /\ regions_and_departments' = regions_and_departments
       /\ pc = "compute_referendum_result_by_regions" =>
            referendum_and_areas' = referendum_and_areas
       /\ pc = "plot_referendum_map" =>
            referendum_results' = referendum_results]_vars

\* C10, amended: no stage changes the rows or the cells of a table passed
\* to it, and the area table and the merged table stay as they were, but
\* merge_regions_and_departments relabels the columns of both its
\* arguments, merge_referendum_and_areas adds the column code_dep (a copy of
\* Department code) to the referendum table, and plot_referendum_map adds the
\* columns nom and ratio to the aggregated table.
C10_ArgumentsKeepTheirCells ==
    [][/\ pc = "merge_regions_and_departments" =>
            /\ SameCellsByPosition(df_reg, df_reg')
            /\ df_reg'.columns = <<"id", "code_reg", "name_reg", "slug">>
            /\ SameCellsByPosition(df_dep, df_dep')
            /\ df_dep'.columns = <<"id", "code_reg", "code_dep", "name_dep", "slug">>
       /\ pc = "merge_referendum_and_areas" =>
            /\ Extended(referendum, referendum', <<"code_dep">>)
            /\ \A i \in DOMAIN referendum'.rows :
                  referendum'.rows[i]["code_dep"] =
                      referendum'.rows[i]["Department code"]
            /\ regions_and_departments' = regions_and_departments
       /\ pc = "compute_referendum_result_by_regions" =>
            referendum_and_areas' = referendum_and_areas
       /\ pc = "plot_referendum_map" =>
            Extended(referendum_results, referendum_results', <<"nom", "ratio">>)]_vars

\* The end of a run in which every stage was handed a table with rows.
C10_Witness ==
    /\ pc = "done"
    /\ df_reg.rows # << >> /\ df_reg.columns = RegionColumns
    /\ df_dep.rows # << >> /\ df_dep.columns = DepartmentColumns
    /\ referendum.rows # << >> /\ "code_dep" \in Range(referendum.columns)
    /\ referendum_results.rows # << >>
    /\ "ratio" \in Range(referendum_results.columns)

====
